---- MODULE Spec2Model ----
(***************************************************************************)
(* Key discovery and relationship verification pipeline of DB-explorer     *)
(* (src/app.py, src/openai_handler.py).                                    *)
(*                                                                         *)
(* Names (tables, fields, report cells) are sequences of one-character     *)
(* strings, so that lower(), replace('_id', ''), str.contains and          *)
(* str.split are computed character by character.  A column of a table is  *)
(* the sequence of its cells in row order; NULL is the cell 0 and the      *)
(* stored values are positive integers.                                    *)
(***************************************************************************)
EXTENDS Integers, Sequences, FiniteSets, TLC

\* ------------------------------------------------------------------------
\* Bounds of the model
\* ------------------------------------------------------------------------
MaxRows == 3
MaxVal == 5
MaxDup == 2
MaxNulls == 1
MaxPairs == 2
MaxLongPairs == 20
MaxGaps == 2

\* ------------------------------------------------------------------------
\* Generic helpers
\* ------------------------------------------------------------------------
Range(s) == { s[i] : i \in 1..Len(s) }

RECURSIVE Concat(_)
\* Concatenation of a sequence of sequences.
Concat(ss) == IF ss = <<>> THEN <<>> ELSE Head(ss) \o Concat(Tail(ss))

RECURSIVE Repeat(_, _)
Repeat(x, n) == IF n <= 0 THEN <<>> ELSE <<x>> \o Repeat(x, n - 1)

\* ------------------------------------------------------------------------
\* Python string operations on character sequences
\* ------------------------------------------------------------------------
UpperAlpha == <<"A","B","C","D","E","F","G","H","I","J","K","L","M",
                "N","O","P","Q","R","S","T","U","V","W","X","Y","Z">>
LowerAlpha == <<"a","b","c","d","e","f","g","h","i","j","k","l","m",
                "n","o","p","q","r","s","t","u","v","w","x","y","z">>

LowerChar(c) ==
    IF \E i \in 1..Len(UpperAlpha) : UpperAlpha[i] = c
    THEN LowerAlpha[CHOOSE i \in 1..Len(UpperAlpha) : UpperAlpha[i] = c]
    ELSE c

\* str.lower()
Lower(s) == [i \in 1..Len(s) |-> LowerChar(s[i])]

StartsWith(s, pat) == Len(s) >= Len(pat) /\ SubSeq(s, 1, Len(pat)) = pat

\* pat in s
Contains(s, pat) ==
    \E i \in 1..(Len(s) - Len(pat) + 1) : SubSeq(s, i, i + Len(pat) - 1) = pat

RECURSIVE Replace(_, _, _)
\* str.replace(old, new): non-overlapping occurrences, scanned left to right.
Replace(s, old, new) ==
    IF s = <<>> THEN <<>>
    ELSE IF StartsWith(s, old)
         THEN new \o Replace(SubSeq(s, Len(old) + 1, Len(s)), old, new)
         ELSE <<Head(s)>> \o Replace(Tail(s), old, new)

RECURSIVE Split(_, _)
\* str.split(sep) for a one-character separator: the list of the pieces.
Split(s, sep) ==
    IF \E i \in 1..Len(s) : s[i] = sep
    THEN LET i == CHOOSE j \in 1..Len(s) :
                      s[j] = sep /\ \A k \in 1..(j - 1) : s[k] # sep
         IN  <<SubSeq(s, 1, i - 1)>> \o Split(SubSeq(s, i + 1, Len(s)), sep)
    ELSE <<s>>

\* ------------------------------------------------------------------------
\* SQL over one column (a sequence of cells, NULL = 0)
\* ------------------------------------------------------------------------
NULL == 0

\* WHERE field IS NOT NULL
NonNull(col) == SelectSeq(col, LAMBDA v : v # NULL)

\* COUNT(DISTINCT field)
CountDistinct(col) == Cardinality(Range(NonNull(col)))

RECURSIVE Insert(_, _)
Insert(v, sorted) ==
    IF sorted = <<>> THEN <<v>>
    ELSE IF v <= Head(sorted) THEN <<v>> \o sorted
         ELSE <<Head(sorted)>> \o Insert(v, Tail(sorted))

RECURSIVE OrderBy(_)
\* ORDER BY field (ascending)
OrderBy(col) == IF col = <<>> THEN <<>> ELSE Insert(Head(col), OrderBy(Tail(col)))

\* A quotient of two counts as numpy computes it: den = 0 stands for the
\* nan (num = 0) or inf (num > 0) that a division by zero yields.
Frac(a, b) == [num |-> a, den |-> b]
IsNumber(f) == f.den # 0
IsZero(f) == f.den # 0 /\ f.num = 0

\* ------------------------------------------------------------------------
\* The database behind the engine, and the schema introspector
\* ------------------------------------------------------------------------
\* A database is [tables, lagOk]: tables is the sequence of tables in the
\* order SHOW TABLES lists them, each [name, cols, pk, data] with data[i] the
\* column of cols[i]; lagOk says whether the server executes the
\* window-function query of is_auto_incrementing (it raises otherwise).

\* get_all_tables
get_all_tables(d) == [i \in 1..Len(d.tables) |-> d.tables[i].name]

TableOf(d, table) == d.tables[CHOOSE i \in 1..Len(d.tables) : d.tables[i].name = table]

\* get_table_columns: the Field column of SHOW COLUMNS
get_table_columns(d, table) == TableOf(d, table).cols

\* get_primary_keys
get_primary_keys(d, table) == TableOf(d, table).pk

\* The cells of table.field, in row order.
ColumnData(d, table, field) ==
    LET t == TableOf(d, table)
    IN  t.data[CHOOSE i \in 1..Len(t.cols) : t.cols[i] = field]

\* ------------------------------------------------------------------------
\* Key Candidate Classifier
\* ------------------------------------------------------------------------
AutoIncPercent == 95

\* is_field_unique: COUNT(*) = COUNT(DISTINCT field) over the non-null cells
is_field_unique(col) == Len(NonNull(col)) = CountDistinct(col)

\* The rows of the CTE "numbered" that have a previous value, as pairs
\* <<prev_value, field>>.
NumberedPairs(col) ==
    LET s == OrderBy(NonNull(col))
    IN  [i \in 1..(Len(s) - 1) |-> <<s[i], s[i + 1]>>]

\* The same query counting the pairs with field = prev_value.
AutoIncQuery_same(col) ==
    LET pairs == NumberedPairs(col)
    IN  [total_rows |-> Len(pairs),
         sequential_rows |->
             Cardinality({i \in 1..Len(pairs) : pairs[i][2] = pairs[i][1]})]

\* The row the query of is_auto_incrementing returns.
AutoIncQuery(col) ==
    LET pairs == NumberedPairs(col)
    IN  [total_rows |-> Len(pairs),
         sequential_rows |->
             Cardinality({i \in 1..Len(pairs) : pairs[i][2] = pairs[i][1] + 1})]

\* The same check accepting a column with exactly 95% of sequential pairs.
is_auto_incrementing_atleast(col, lagOk) ==
    IF ~lagOk THEN FALSE
    ELSE LET result == AutoIncQuery(col)
         IN  IF result.total_rows = 0 THEN FALSE
             ELSE result.sequential_rows * 100 >= AutoIncPercent * result.total_rows

\* The same check accepting a column that has no adjacent pair.
is_auto_incrementing_vacuous(col, lagOk) ==
    IF ~lagOk THEN FALSE
    ELSE LET result == AutoIncQuery(col)
         IN  IF result.total_rows = 0 THEN TRUE
             ELSE result.sequential_rows * 100 > AutoIncPercent * result.total_rows

\* is_auto_incrementing: sequential_rows / total_rows > 0.95, False when
\* there is no adjacent pair or when the query raises.
is_auto_incrementing(col, lagOk) ==
    IF ~lagOk THEN FALSE
    ELSE LET result == AutoIncQuery(col)
         IN  IF result.total_rows = 0 THEN FALSE
             ELSE result.sequential_rows * 100 > AutoIncPercent * result.total_rows

\* The filter of find_potential_keys: unique and auto-incrementing.
Qualifies(d, table, field) ==
    /\ is_field_unique(ColumnData(d, table, field))
    /\ is_auto_incrementing(ColumnData(d, table, field), d.lagOk)

chId == <<"i", "d">>
chUnderId == <<"_", "i", "d">>
chUpperId == <<"I", "D">>

\* columns['Field'].str.lower() == 'id'
IsIdColumn(field) == Lower(field) = chId

\* str.contains('_id', case=False) | str.contains('ID', regex=False)
IsIdLike(field) == Contains(Lower(field), chUnderId) \/ Contains(field, chUpperId)

Pairs(table, fields) == [i \in 1..Len(fields) |-> <<table, fields[i]>>]

\* Step 1 keeping the declared columns only when all of them pass.
DeclaredKeys_allornothing(d, table) ==
    IF \A i \in 1..Len(get_primary_keys(d, table)) :
           Qualifies(d, table, get_primary_keys(d, table)[i])
    THEN get_primary_keys(d, table)
    ELSE <<>>

\* Step 1: the declared primary-key columns that pass the filter.
DeclaredKeys(d, table) ==
    SelectSeq(get_primary_keys(d, table), LAMBDA f : Qualifies(d, table, f))

\* Step 2 going on to the ID-like columns when no column named id passes.
IdKeys_orlike(d, table) ==
    LET ok == SelectSeq(SelectSeq(get_table_columns(d, table), IsIdColumn),
                        LAMBDA f : Qualifies(d, table, f))
    IN  IF ok = <<>>
        THEN SelectSeq(SelectSeq(get_table_columns(d, table), IsIdLike),
                       LAMBDA f : Qualifies(d, table, f))
        ELSE <<Head(ok)>>

\* Step 2: the first column named id that passes the filter (break).
IdKeys(d, table) ==
    LET ok == SelectSeq(SelectSeq(get_table_columns(d, table), IsIdColumn),
                        LAMBDA f : Qualifies(d, table, f))
    IN  IF ok = <<>> THEN <<>> ELSE <<Head(ok)>>

\* Step 3: every ID-like column that passes the filter.
IdLikeKeys(d, table) ==
    SelectSeq(SelectSeq(get_table_columns(d, table), IsIdLike),
              LAMBDA f : Qualifies(d, table, f))

\* The same iteration going on to the next heuristics when no declared
\* primary-key column passes the filter.
ClassifyTable_fallthrough(d, table, primary_keys, untracked_tables) ==
    IF DeclaredKeys(d, table) # <<>>
    THEN [primary_keys |-> primary_keys \o Pairs(table, DeclaredKeys(d, table)),
          untracked_tables |-> untracked_tables]
    ELSE IF SelectSeq(get_table_columns(d, table), IsIdColumn) # <<>>
    THEN LET pks == primary_keys \o Pairs(table, IdKeys(d, table))
         IN  [primary_keys |-> pks,
              untracked_tables |->
                  IF table \notin { pk[1] : pk \in Range(pks) }
                  THEN Append(untracked_tables, table)
                  ELSE untracked_tables]
    ELSE LET auto_inc_fields == IdLikeKeys(d, table)
         IN  IF auto_inc_fields # <<>>
             THEN [primary_keys |-> primary_keys \o Pairs(table, auto_inc_fields),
                   untracked_tables |-> untracked_tables]
             ELSE [primary_keys |-> primary_keys,
                   untracked_tables |-> Append(untracked_tables, table)]

\* One iteration of the loop of find_potential_keys (lines 100-144): the
\* lists primary_keys and untracked_tables after the table is classified.
ClassifyTable(d, table, primary_keys, untracked_tables) ==
    IF get_primary_keys(d, table) # <<>>
    THEN LET pks == primary_keys \o Pairs(table, DeclaredKeys(d, table))
         IN  [primary_keys |-> pks,
              untracked_tables |->
                  IF ~ \E i \in 1..Len(get_primary_keys(d, table)) :
                          <<table, get_primary_keys(d, table)[i]>> \in Range(pks)
                  THEN Append(untracked_tables, table)
                  ELSE untracked_tables]
    ELSE IF SelectSeq(get_table_columns(d, table), IsIdColumn) # <<>>
    THEN LET pks == primary_keys \o Pairs(table, IdKeys(d, table))
         IN  [primary_keys |-> pks,
              untracked_tables |->
                  IF table \notin { pk[1] : pk \in Range(pks) }
                  THEN Append(untracked_tables, table)
                  ELSE untracked_tables]
    ELSE LET auto_inc_fields == IdLikeKeys(d, table)
         IN  IF auto_inc_fields # <<>>
             THEN [primary_keys |-> primary_keys \o Pairs(table, auto_inc_fields),
                   untracked_tables |-> untracked_tables]
             ELSE [primary_keys |-> primary_keys,
                   untracked_tables |-> Append(untracked_tables, table)]

\* The same iteration keeping the columns that are in primary_keys.
ForeignKeysOf_all(d, table, primary_keys) ==
    Pairs(table, SelectSeq(get_table_columns(d, table), IsIdLike))

\* One iteration of the loop of find_potential_foreign_keys: the ID-like
\* columns of the table that are not in primary_keys.
ForeignKeysOf(d, table, primary_keys) ==
    SelectSeq(Pairs(table, SelectSeq(get_table_columns(d, table), IsIdLike)),
              LAMBDA p : p \notin Range(primary_keys))

\* ------------------------------------------------------------------------
\* Name-Based Matcher and Exhaustive Fallback Matcher
\* ------------------------------------------------------------------------
\* A candidate match {table_pk, field_pk, table_fk, field_fk}.
Match(pk, fk) ==
    [table_pk |-> pk[1], field_pk |-> pk[2], table_fk |-> fk[1], field_fk |-> fk[2]]

PkOf(m) == <<m.table_pk, m.field_pk>>
FkOf(m) == <<m.table_fk, m.field_fk>>

\* The same normalization removing '_id' only at the end of the name.
BaseField_anchored(field) ==
    LET low == Lower(field)
        n == Len(low)
    IN  IF n >= 3 /\ SubSeq(low, n - 2, n) = chUnderId THEN SubSeq(low, 1, n - 3) ELSE low

\* field.lower().replace('_id', '')
BaseField(field) == Replace(Lower(field), chUnderId, <<>>)

\* The same lookup ignoring the base name.
PrimaryKeyDict_any(primary_keys, base) == primary_keys

\* primary_key_dict[base]: the primary keys of that base name, in list order.
PrimaryKeyDict(primary_keys, base) ==
    SelectSeq(primary_keys, LAMBDA pk : BaseField(pk[2]) = base)

\* The same matchers without the test that avoids self-references.
MatchesOfFk_selfref(primary_keys, fk) ==
    LET found == PrimaryKeyDict(primary_keys, BaseField(fk[2]))
    IN  [i \in 1..Len(found) |-> Match(found[i], fk)]

\* The inner loop of generate_fk_pk_matches for one foreign key.
MatchesOfFk(primary_keys, fk) ==
    LET found == SelectSeq(PrimaryKeyDict(primary_keys, BaseField(fk[2])),
                           LAMBDA pk : pk[1] # fk[1])
    IN  [i \in 1..Len(found) |-> Match(found[i], fk)]

\* The same matcher stopping at the first primary key found for a foreign key.
generate_fk_pk_matches_first(primary_keys, foreign_keys) ==
    Concat([i \in 1..Len(foreign_keys) |->
               LET found == MatchesOfFk(primary_keys, foreign_keys[i])
               IN  IF found = <<>> THEN <<>> ELSE <<Head(found)>>])

\* generate_fk_pk_matches
generate_fk_pk_matches(primary_keys, foreign_keys) ==
    Concat([i \in 1..Len(foreign_keys) |-> MatchesOfFk(primary_keys, foreign_keys[i])])

AllOfPk_selfref(pk, foreign_keys) ==
    [i \in 1..Len(foreign_keys) |-> Match(pk, foreign_keys[i])]

\* The inner loop of generate_all_possible_matches for one primary key.
AllOfPk(pk, foreign_keys) ==
    LET found == SelectSeq(foreign_keys, LAMBDA fk : pk[1] # fk[1])
    IN  [i \in 1..Len(found) |-> Match(pk, found[i])]

\* generate_all_possible_matches
generate_all_possible_matches(primary_keys, foreign_keys) ==
    Concat([i \in 1..Len(primary_keys) |-> AllOfPk(primary_keys[i], foreign_keys)])

\* ------------------------------------------------------------------------
\* Relationship Verifier
\* ------------------------------------------------------------------------
DefaultThreshold == Frac(1, 10)

\* The integrity query counting rows instead of distinct values.
IntegrityQuery_rows(pkcol, fkcol) ==
    [invalid_distinct_count |->
         Len(SelectSeq(NonNull(fkcol), LAMBDA v : v \notin Range(NonNull(pkcol)))),
     total_distinct_count |-> Len(NonNull(fkcol))]

\* The row of the integrity query: the distinct non-null fk values with no
\* equal pk value, and the distinct non-null fk values.
IntegrityQuery(pkcol, fkcol) ==
    [invalid_distinct_count |->
         Cardinality({v \in Range(NonNull(fkcol)) : v \notin Range(NonNull(pkcol))}),
     total_distinct_count |-> CountDistinct(fkcol)]

\* The row of the usage-statistics query.
UsageQuery(pkcol, fkcol) ==
    [total_rows |-> Len(fkcol),
     non_null_count |-> Len(NonNull(fkcol)),
     fk_distinct_values |-> CountDistinct(fkcol),
     pk_distinct_values |-> CountDistinct(pkcol)]

\* The threshold test rejecting a ratio equal to the threshold as well.
RatioExceeds_inclusive(invalid_count, total_distinct, threshold) ==
    /\ total_distinct > 0
    /\ invalid_count * threshold.den >= threshold.num * total_distinct

\* invalid_ratio > threshold, with invalid_ratio = 0 when total_distinct = 0
RatioExceeds(invalid_count, total_distinct, threshold) ==
    /\ total_distinct > 0
    /\ invalid_count * threshold.den > threshold.num * total_distinct

\* The statistics of an accepted pair.
StatsOf(usage_stats) ==
    [referential_integrity |-> TRUE,
     null_percentage |->
         Frac((usage_stats.total_rows - usage_stats.non_null_count) * 100,
              usage_stats.total_rows),
     distinct_values_fk |-> usage_stats.fk_distinct_values,
     distinct_values_pk |-> usage_stats.pk_distinct_values,
     coverage |-> Frac(usage_stats.fk_distinct_values * 100,
                       usage_stats.pk_distinct_values)]

\* The same function with the usage query outside the try block's reach:
\* its failure is not converted, and the pair is accepted.
verify_relationship_usage_uncaught(pkcol, fkcol, threshold, fault) ==
    IF fault = "integrity"
    THEN [verified |-> FALSE, reason |-> [kind |-> "error"]]
    ELSE LET integrity_check == IntegrityQuery(pkcol, fkcol)
         IN  IF RatioExceeds(integrity_check.invalid_distinct_count,
                             integrity_check.total_distinct_count, threshold)
             THEN [verified |-> FALSE,
                   reason |-> [kind |-> "integrity",
                               invalid |-> integrity_check.invalid_distinct_count,
                               total |-> integrity_check.total_distinct_count]]
             ELSE [verified |-> TRUE, stats |-> StatsOf(UsageQuery(pkcol, fkcol))]

\* The same function whose caught exception returns no reason.
verify_relationship_noreason(pkcol, fkcol, threshold, fault) ==
    IF fault = "integrity"
    THEN [verified |-> FALSE]
    ELSE LET integrity_check == IntegrityQuery(pkcol, fkcol)
         IN  IF RatioExceeds(integrity_check.invalid_distinct_count,
                             integrity_check.total_distinct_count, threshold)
             THEN [verified |-> FALSE,
                   reason |-> [kind |-> "integrity",
                               invalid |-> integrity_check.invalid_distinct_count,
                               total |-> integrity_check.total_distinct_count]]
             ELSE IF fault = "usage"
                  THEN [verified |-> FALSE]
                  ELSE [verified |-> TRUE, stats |-> StatsOf(UsageQuery(pkcol, fkcol))]

\* verify_relationship on the two columns; fault is "none", or the query
\* ("integrity", "usage") whose execution raises.
verify_relationship(pkcol, fkcol, threshold, fault) ==
    IF fault = "integrity"
    THEN [verified |-> FALSE, reason |-> [kind |-> "error"]]
    ELSE LET integrity_check == IntegrityQuery(pkcol, fkcol)
         IN  IF RatioExceeds(integrity_check.invalid_distinct_count,
                             integrity_check.total_distinct_count, threshold)
             THEN [verified |-> FALSE,
                   reason |-> [kind |-> "integrity",
                               invalid |-> integrity_check.invalid_distinct_count,
                               total |-> integrity_check.total_distinct_count]]
             ELSE IF fault = "usage"
                  THEN [verified |-> FALSE, reason |-> [kind |-> "error"]]
                  ELSE [verified |-> TRUE, stats |-> StatsOf(UsageQuery(pkcol, fkcol))]

Faults == {"none", "integrity", "usage"}

\* ------------------------------------------------------------------------
\* Relationship Report: save_verified_matches and read_verified_matches
\* ------------------------------------------------------------------------
\* A report row has the cells table_name, field_name, field_type,
\* relationship, status (text), verified (a boolean) and
\* referential_integrity, null_percentage, distinct_values_source,
\* distinct_values_target, coverage (<<value>>).  None is the empty cell,
\* which to_csv writes as the empty field.
None == <<>>
Some(x) == <<x>>

chPK == <<"P", "K">>
chFK == <<"F", "K">>
chArrowToFk == <<"→", " ">>
chArrowToPk == <<"←", " ">>
chDot == <<".">>
chNoRelationships ==
    <<"N","o"," ","r","e","l","a","t","i","o","n","s","h","i","p","s">>
chVerified == <<"v","e","r","i","f","i","e","d">>
chUnusedPk ==
    <<"u","n","u","s","e","d"," ","p","r","i","m","a","r","y"," ","k","e","y">>
chUnusedFk ==
    <<"u","n","u","s","e","d"," ","f","o","r","e","i","g","n"," ","k","e","y">>
chNoIdentifiers ==
    <<"n","o"," ","i","d","e","n","t","i","f","i","e","r","s"," ",
      "d","e","t","e","c","t","e","d">>
\* The status of a rejected result: its reason, as text.
chReason == <<"r","e","a","s","o","n">>

\* The PK-role row whose relationship names the primary key itself.
PkRow_selfarrow(match, result) ==
    [table_name |-> match.table_pk,
     field_name |-> match.field_pk,
     field_type |-> chPK,
     relationship |-> chArrowToFk \o match.table_pk \o chDot \o match.field_pk,
     verified |-> result.verified,
     status |-> IF result.verified THEN chVerified ELSE chReason,
     referential_integrity |-> IF result.verified THEN Some(TRUE) ELSE Some(FALSE),
     null_percentage |->
         IF result.verified THEN Some(result.stats.null_percentage) ELSE None,
     distinct_values_source |->
         IF result.verified THEN Some(result.stats.distinct_values_pk) ELSE None,
     distinct_values_target |->
         IF result.verified THEN Some(result.stats.distinct_values_fk) ELSE None,
     coverage |-> IF result.verified THEN Some(result.stats.coverage) ELSE None]

\* The PK-role row of a match and its result (lines 295-321).
PkRow(match, result) ==
    [table_name |-> match.table_pk,
     field_name |-> match.field_pk,
     field_type |-> chPK,
     relationship |-> chArrowToFk \o match.table_fk \o chDot \o match.field_fk,
     verified |-> result.verified,
     status |-> IF result.verified THEN chVerified ELSE chReason,
     referential_integrity |-> IF result.verified THEN Some(TRUE) ELSE Some(FALSE),
     null_percentage |->
         IF result.verified THEN Some(result.stats.null_percentage) ELSE None,
     distinct_values_source |->
         IF result.verified THEN Some(result.stats.distinct_values_pk) ELSE None,
     distinct_values_target |->
         IF result.verified THEN Some(result.stats.distinct_values_fk) ELSE None,
     coverage |-> IF result.verified THEN Some(result.stats.coverage) ELSE None]

\* The FK-role row without the swap of source and target.
FkRow_unswapped(match, result, data) ==
    [table_name |-> match.table_fk,
     field_name |-> match.field_fk,
     field_type |-> chFK,
     relationship |-> chArrowToPk \o match.table_pk \o chDot \o match.field_pk,
     verified |-> result.verified,
     status |-> IF result.verified THEN chVerified ELSE chReason,
     referential_integrity |-> data.referential_integrity,
     null_percentage |-> data.null_percentage,
     distinct_values_source |-> data.distinct_values_source,
     distinct_values_target |-> data.distinct_values_target,
     coverage |-> data.coverage]

\* The FK-role row of a match, from its PK-role row data (lines 324-337).
FkRow(match, result, data) ==
    [table_name |-> match.table_fk,
     field_name |-> match.field_fk,
     field_type |-> chFK,
     relationship |-> chArrowToPk \o match.table_pk \o chDot \o match.field_pk,
     verified |-> result.verified,
     status |-> IF result.verified THEN chVerified ELSE chReason,
     referential_integrity |-> data.referential_integrity,
     null_percentage |-> data.null_percentage,
     distinct_values_source |-> data.distinct_values_target,
     distinct_values_target |-> data.distinct_values_source,
     coverage |-> data.coverage]

\* The row of an unused key filled like the row of a rejected match.
UnusedRow_rejected(key, field_type, status) ==
    [table_name |-> key[1],
     field_name |-> key[2],
     field_type |-> field_type,
     relationship |-> chNoRelationships,
     verified |-> FALSE,
     status |-> status,
     referential_integrity |-> Some(FALSE),
     null_percentage |-> None,
     distinct_values_source |-> None,
     distinct_values_target |-> None,
     coverage |-> None]

\* The row of an unused key (lines 349-361 and 368-380).
UnusedRow(key, field_type, status) ==
    [table_name |-> key[1],
     field_name |-> key[2],
     field_type |-> field_type,
     relationship |-> chNoRelationships,
     verified |-> FALSE,
     status |-> status,
     referential_integrity |-> None,
     null_percentage |-> None,
     distinct_values_source |-> None,
     distinct_values_target |-> None,
     coverage |-> None]

\* The row of an untracked table (lines 387-399).
UntrackedRow(table) ==
    [table_name |-> table,
     field_name |-> None,
     field_type |-> None,
     relationship |-> None,
     verified |-> FALSE,
     status |-> chNoIdentifiers,
     referential_integrity |-> None,
     null_percentage |-> None,
     distinct_values_source |-> None,
     distinct_values_target |-> None,
     coverage |-> None]

\* zip(matches, verification_results)
Zipped(matches, verification_results) ==
    IF Len(matches) <= Len(verification_results)
    THEN Len(matches) ELSE Len(verification_results)

\* The untracked rows written for every untracked table, represented or not.
UntrackedRows_all(untracked_tables, tables_in_relationships) ==
    [i \in 1..Len(untracked_tables) |-> UntrackedRow(untracked_tables[i])]

\* The untracked rows: the tables not yet in tables_in_relationships.
UntrackedRows(untracked_tables, tables_in_relationships) ==
    LET left == SelectSeq(untracked_tables,
                          LAMBDA t : t \notin tables_in_relationships)
    IN  [i \in 1..Len(left) |-> UntrackedRow(left[i])]

\* save_verified_matches: the rows of the data frame written to the file.
save_verified_matches(matches, verification_results, potential_keys, potential_foreign_keys, untracked_tables) ==
    LET n == Zipped(matches, verification_results)
        used_pks == { PkOf(matches[i]) : i \in 1..n }
        used_fks == { FkOf(matches[i]) : i \in 1..n }
        match_rows ==
            Concat([i \in 1..n |->
                <<PkRow(matches[i], verification_results[i]),
                  FkRow(matches[i], verification_results[i],
                        PkRow(matches[i], verification_results[i]))>>])
        unused_pks == SelectSeq(potential_keys, LAMBDA k : k \notin used_pks)
        unused_fks == SelectSeq(potential_foreign_keys, LAMBDA k : k \notin used_fks)
        tables_in_relationships ==
            { matches[i].table_pk : i \in 1..n }
                \cup { matches[i].table_fk : i \in 1..n }
                \cup { k[1] : k \in Range(unused_pks) }
                \cup { k[1] : k \in Range(unused_fks) }
    IN  match_rows
            \o [i \in 1..Len(unused_pks) |-> UnusedRow(unused_pks[i], chPK, chUnusedPk)]
            \o [i \in 1..Len(unused_fks) |-> UnusedRow(unused_fks[i], chFK, chUnusedFk)]
            \o UntrackedRows(untracked_tables, tables_in_relationships)

\* pd.read_csv: the fields it reads as missing values (NaN).
NaN == <<"nan">>
NaValues == { <<>>, <<"N","A">>, <<"N","a","N">>, <<"n","a","n">> }

\* A text cell of the file as pd.read_csv returns it.
ReadCell(text) == IF text \in NaValues THEN NaN ELSE text

\* pd.read_csv on the text columns of the file.
ReadCsv(rows) ==
    [i \in 1..Len(rows) |->
        [rows[i] EXCEPT !.table_name = ReadCell(@),
                        !.field_name = ReadCell(@),
                        !.field_type = ReadCell(@),
                        !.relationship = ReadCell(@),
                        !.status = ReadCell(@)]]

\* The try block of read_verified_matches for one PK row: <<match>>, or <<>>
\* when the relationship text raises IndexError or ValueError.
ParseRelationship(pk_row) ==
    LET words == Split(pk_row.relationship, " ")
    IN  IF Len(words) < 2 THEN <<>>
        ELSE LET fk_info == Split(words[2], ".")
             IN  IF Len(fk_info) # 2 THEN <<>>
                 ELSE <<[table_pk |-> pk_row.table_name,
                         field_pk |-> pk_row.field_name,
                         table_fk |-> fk_info[1],
                         field_fk |-> fk_info[2]]>>

\* read_verified_matches on the rows of the file.
read_verified_matches(rows) ==
    LET df == ReadCsv(rows)
        pk_df == SelectSeq(df, LAMBDA r : r.field_type = chPK)
        related == SelectSeq(pk_df, LAMBDA r : r.relationship # NaN
                                               /\ r.relationship # chNoRelationships)
    IN  [verified_matches |->
             Concat([i \in 1..Len(related) |-> ParseRelationship(related[i])]),
         potential_keys |->
             { <<r.table_name, r.field_name>> : r \in Range(pk_df) },
         potential_foreign_keys |->
             { <<r.table_name, r.field_name>> :
                   r \in Range(SelectSeq(df, LAMBDA r : r.field_type = chFK)) },
         untracked_tables |->
             LET u == SelectSeq(df, LAMBDA r : r.status = chNoIdentifiers)
             IN  [i \in 1..Len(u) |-> u[i].table_name]]

\* find_potential_keys: the loop over the tables, from table i on.
RECURSIVE ClassifyFrom(_, _, _, _)
ClassifyFrom(d, i, primary_keys, untracked_tables) ==
    IF i > Len(get_all_tables(d))
    THEN [primary_keys |-> primary_keys, untracked_tables |-> untracked_tables]
    ELSE LET r == ClassifyTable(d, get_all_tables(d)[i], primary_keys, untracked_tables)
         IN  ClassifyFrom(d, i + 1, r.primary_keys, r.untracked_tables)

\* The same function listing every table as untracked.
find_potential_keys_alluntracked(d) ==
    [primary_keys |-> ClassifyFrom(d, 1, <<>>, <<>>).primary_keys,
     untracked_tables |-> get_all_tables(d)]

find_potential_keys(d) == ClassifyFrom(d, 1, <<>>, <<>>)

\* The same function filtering against no primary key.
find_potential_foreign_keys_unfiltered(d, primary_keys) ==
    Concat([i \in 1..Len(get_all_tables(d)) |->
               ForeignKeysOf(d, get_all_tables(d)[i], <<>>)])

\* find_potential_foreign_keys
find_potential_foreign_keys(d, primary_keys) ==
    Concat([i \in 1..Len(get_all_tables(d)) |->
               ForeignKeysOf(d, get_all_tables(d)[i], primary_keys)])

\* ------------------------------------------------------------------------
\* Rating capability (get_matches_from_openai) and the filter of main
\* ------------------------------------------------------------------------
Strengths == {"very weak", "weak", "normal", "strong", "very strong"}
StrongEnough == {"normal", "strong", "very strong"}

\* The lists of at most n strength labels.
StrengthLists(n) == UNION { [1..k -> Strengths] : k \in 0..n }

\* get_matches_from_openai when the request returns: the answer carries a
\* function call with the list result["strengths"], or none.
get_matches_from_openai(matches, answer) ==
    IF answer.function_call THEN answer.strengths
    ELSE [i \in 1..Len(matches) |-> "weak"]

\* The answers of the rating service to a batch of n pairs.
Answers(n) ==
    { [function_call |-> TRUE, strengths |-> l] : l \in StrengthLists(n) }
        \cup { [function_call |-> FALSE, strengths |-> <<>>] }

\* The same list without the filter on the strength.
StrongMatches_all(remaining, strengths) ==
    LET n == IF Len(remaining) <= Len(strengths) THEN Len(remaining) ELSE Len(strengths)
    IN  [i \in 1..n |-> <<remaining[i], strengths[i]>>]

\* The list strong_matches of main (lines 703-706).
StrongMatches(remaining, strengths) ==
    LET n == IF Len(remaining) <= Len(strengths) THEN Len(remaining) ELSE Len(strengths)
        zipped == [i \in 1..n |-> <<remaining[i], strengths[i]>>]
    IN  SelectSeq(zipped, LAMBDA ms : ms[2] \in StrongEnough)

\* The lists unused_pks and unused_fks of main (lines 677-685).
\* The same list keeping the keys of verified matches.
UnusedPks_all(keys, matches) == keys

UnusedPks(keys, matches) ==
    SelectSeq(keys, LAMBDA k : k \notin { PkOf(matches[i]) : i \in 1..Len(matches) })
UnusedFks(keys, matches) ==
    SelectSeq(keys, LAMBDA k : k \notin { FkOf(matches[i]) : i \in 1..Len(matches) })

\* ------------------------------------------------------------------------
\* The databases the pipeline is run on
\* ------------------------------------------------------------------------
tUsers == <<"u","s","e","r","s">>
tOrders == <<"o","r","d","e","r","s">>
tAccounts == <<"a","c","c","o","u","n","t","s">>
tLedger == <<"l","e","d","g","e","r">>
tParts == <<"p","a","r","t","s">>
tNA == <<"N","A">>
tCustomers == <<"c","u","s","t","o","m","e","r","s">>
tInvoices == <<"i","n","v","o","i","c","e","s">>
fId == <<"i","d">>
fUpperId == <<"I","D">>
fName == <<"n","a","m","e">>
fTotal == <<"t","o","t","a","l">>
fOrderId == <<"o","r","d","e","r","_","i","d">>
fUserId == <<"u","s","e","r","_","i","d">>
fAcctId == <<"a","c","c","t","_","i","d">>
fEntryId == <<"e","n","t","r","y","_","i","d">>
fPartId == <<"p","a","r","t","_","i","d">>
fPartIdId == <<"p","a","r","t","_","i","d","_","i","d">>
fClientRef == <<"c","l","i","e","n","t","_","r","e","f">>
fCustId == <<"c","u","s","t","_","i","d">>

\* The cell of row i of a column of the given shape.
ShapeCell(shape, i) ==
    CASE shape = "seq" -> i
      [] shape = "gap" -> 2 * i
      [] shape = "dup" -> 1
      [] shape = "null" -> NULL

KeyShapes == {"seq", "gap"}
RefShapes == {"seq", "gap", "dup", "null"}

Column(shape, n) == [i \in 1..n |-> ShapeCell(shape, i)]

Table(name, cols, pk, shapes, n) ==
    [name |-> name, cols |-> cols, pk |-> pk,
     data |-> [i \in 1..Len(cols) |-> Column(shapes[i], n)]]

\* orders(order_id, user_id, total) and users(id, name), no declared keys
ShopTables ==
    { << Table(tOrders, <<fOrderId, fUserId, fTotal>>, <<>>, <<so, sr, "dup">>, no),
         Table(tUsers, <<fId, fName>>, <<>>, <<su, "dup">>, nu) >> :
        so \in KeyShapes, sr \in RefShapes, su \in KeyShapes,
        no \in 0..MaxRows, nu \in 0..MaxRows }

\* accounts(acct_id, id) with the declared key acct_id, and
\* ledger(entry_id, acct_id) with the declared composite key
LedgerTables ==
    { << Table(tAccounts, <<fAcctId, fId>>, <<fAcctId>>, <<sa, "seq">>, na),
         Table(tLedger, <<fEntryId, fAcctId>>, <<fEntryId, fAcctId>>, <<se, sr>>, nl) >> :
        sa \in KeyShapes, se \in KeyShapes, sr \in RefShapes,
        na \in 0..MaxRows, nl \in 0..MaxRows }

\* NA(ID, part_id) and parts(part_id, part_id_id), no declared keys
PartTables ==
    { << Table(tNA, <<fUpperId, fPartId>>, <<>>, <<si, sr>>, nn),
         Table(tParts, <<fPartId, fPartIdId>>, <<>>, <<sp, sq>>, np) >> :
        si \in KeyShapes, sr \in RefShapes, sp \in KeyShapes, sq \in {"seq", "dup"},
        nn \in {0, MaxRows}, np \in {0, MaxRows} }

Databases ==
    { [tables |-> t, lagOk |-> ok] :
        t \in ShopTables \cup LedgerTables \cup PartTables, ok \in BOOLEAN }

\* ------------------------------------------------------------------------
\* State
\* ------------------------------------------------------------------------
VARIABLES
    db,                    \* the database behind the engine
    pc,                    \* the position of main
    idx,                   \* the index of the verification loops
    potential_keys,
    untracked_tables,
    potential_foreign_keys,
    potential_matches,
    verified_matches,
    verification_results,
    remaining_matches,
    strengths,
    strong_matches,
    report,                \* verified_relationships.csv: [written, rows]
    calls,                 \* the calls of verify_relationship: [match, result]
    reloaded,              \* what read_verified_matches returned
    args,                  \* the arguments of a function applied on its own
    ret                    \* and what it returned

vars == <<db, pc, idx, potential_keys, untracked_tables, potential_foreign_keys,
          potential_matches, verified_matches, verification_results,
          remaining_matches, strengths, strong_matches, report, calls, reloaded,
          args, ret>>

NoReport == [written |-> FALSE, rows |-> <<>>]
NotReloaded == [read |-> FALSE]

\* main (lines 589-607): the engine is up and the schema was introspected.
Init ==
    /\ db \in Databases
    /\ pc = "keys"
    /\ idx = 1
    /\ potential_keys = <<>>
    /\ untracked_tables = <<>>
    /\ potential_foreign_keys = <<>>
    /\ potential_matches = <<>>
    /\ verified_matches = <<>>
    /\ verification_results = <<>>
    /\ remaining_matches = <<>>
    /\ strengths = <<>>
    /\ strong_matches = <<>>
    /\ report = NoReport
    /\ calls = <<>>
    /\ reloaded = NotReloaded
    /\ args = <<>>
    /\ ret = <<>>

\* main line 610
FindKeys ==
    /\ pc = "keys"
    /\ potential_keys' = find_potential_keys(db).primary_keys
    /\ untracked_tables' = find_potential_keys(db).untracked_tables
    /\ pc' = "fks"
    /\ UNCHANGED <<db, idx, potential_foreign_keys, potential_matches,
                   verified_matches, verification_results, remaining_matches,
                   strengths, strong_matches, report, calls, reloaded, args, ret>>

\* main line 611
FindForeignKeys ==
    /\ pc = "fks"
    /\ potential_foreign_keys' = find_potential_foreign_keys(db, potential_keys)
    /\ pc' = "match"
    /\ UNCHANGED <<db, idx, potential_keys, untracked_tables, potential_matches,
                   verified_matches, verification_results, remaining_matches,
                   strengths, strong_matches, report, calls, reloaded, args, ret>>

\* main lines 622-628
GenerateMatches ==
    /\ pc = "match"
    /\ potential_matches' = generate_fk_pk_matches(potential_keys, potential_foreign_keys)
    /\ verified_matches' = <<>>
    /\ verification_results' = <<>>
    /\ idx' = 1
    /\ pc' = "verify"
    /\ UNCHANGED <<db, potential_keys, untracked_tables, potential_foreign_keys,
                   remaining_matches, strengths, strong_matches, report, calls,
                   reloaded, args, ret>>

\* The call of verify_relationship by main, with the default threshold.
VerifyCall(match, fault) ==
    verify_relationship(ColumnData(db, match.table_pk, match.field_pk),
                        ColumnData(db, match.table_fk, match.field_fk),
                        DefaultThreshold, fault)

\* The same body accepting the match whatever the result says.
VerifyAndRecord_always(match) ==
    \E fault \in Faults :
        LET result == VerifyCall(match, fault)
        IN  /\ calls' = Append(calls, [match |-> match, result |-> result])
            /\ verified_matches' = Append(verified_matches, match)
            /\ verification_results' = Append(verification_results, result)

\* The same body appending the match whatever the result says, and the
\* result when verified.
VerifyAndRecord_unpaired(match) ==
    \E fault \in Faults :
        LET result == VerifyCall(match, fault)
        IN  /\ calls' = Append(calls, [match |-> match, result |-> result])
            /\ verified_matches' = Append(verified_matches, match)
            /\ IF result.verified
               THEN verification_results' = Append(verification_results, result)
               ELSE UNCHANGED verification_results

\* The body of both verification loops: verify, and append when verified.
VerifyAndRecord(match) ==
    \E fault \in Faults :
        LET result == VerifyCall(match, fault)
        IN  /\ calls' = Append(calls, [match |-> match, result |-> result])
            /\ IF result.verified
               THEN /\ verified_matches' = Append(verified_matches, match)
                    /\ verification_results' = Append(verification_results, result)
               ELSE UNCHANGED <<verified_matches, verification_results>>

\* main lines 630-649: one iteration of the loop over potential_matches
VerifyMatch ==
    /\ pc = "verify"
    /\ idx <= Len(potential_matches)
    /\ VerifyAndRecord(potential_matches[idx])
    /\ idx' = idx + 1
    /\ UNCHANGED <<db, pc, potential_keys, untracked_tables, potential_foreign_keys,
                   potential_matches, remaining_matches, strengths, strong_matches,
                   report, reloaded, args, ret>>

\* The file after "if verified_matches: save_verified_matches(...)".
SavedReport ==
    IF verified_matches # <<>>
    THEN [written |-> TRUE,
          rows |-> save_verified_matches(verified_matches, verification_results,
                                         potential_keys, potential_foreign_keys,
                                         untracked_tables)]
    ELSE report

\* main lines 651-661
SaveResults ==
    /\ pc = "verify"
    /\ idx > Len(potential_matches)
    /\ report' = SavedReport
    /\ pc' = "fallback"
    /\ UNCHANGED <<db, idx, potential_keys, untracked_tables, potential_foreign_keys,
                   potential_matches, verified_matches, verification_results,
                   remaining_matches, strengths, strong_matches, calls, reloaded,
                   args, ret>>

\* The same step pairing all the candidates, used in a verified match or not.
Fallback_allkeys ==
    /\ pc = "fallback"
    /\ remaining_matches' =
           generate_all_possible_matches(potential_keys, potential_foreign_keys)
    /\ pc' = IF remaining_matches' # <<>> THEN "rate" ELSE "finish"
    /\ UNCHANGED <<db, idx, potential_keys, untracked_tables, potential_foreign_keys,
                   potential_matches, verified_matches, verification_results,
                   strengths, strong_matches, report, calls, reloaded, args, ret>>

\* main lines 676-694 and 746-747
Fallback ==
    /\ pc = "fallback"
    /\ remaining_matches' =
           generate_all_possible_matches(
               UnusedPks(potential_keys, verified_matches),
               UnusedFks(potential_foreign_keys, verified_matches))
    /\ pc' = IF remaining_matches' # <<>> THEN "rate" ELSE "finish"
    /\ UNCHANGED <<db, idx, potential_keys, untracked_tables, potential_foreign_keys,
                   potential_matches, verified_matches, verification_results,
                   strengths, strong_matches, report, calls, reloaded, args, ret>>

\* main lines 696-708 and 744-745: the rating request returns
RateMatches ==
    /\ pc = "rate"
    /\ \E answer \in Answers(Len(remaining_matches)) :
           /\ strengths' = get_matches_from_openai(remaining_matches, answer)
           /\ strong_matches' = StrongMatches(remaining_matches, strengths')
    /\ idx' = 1
    /\ pc' = IF strong_matches' # <<>> THEN "verify2" ELSE "finish"
    /\ UNCHANGED <<db, potential_keys, untracked_tables, potential_foreign_keys,
                   potential_matches, verified_matches, verification_results,
                   remaining_matches, report, calls, reloaded, args, ret>>

\* main line 700: the rating request raises (the service is unavailable, or
\* its answer is no JSON with a "strengths" entry); main does not catch it.
RateFails ==
    /\ pc = "rate"
    /\ pc' = "aborted"
    /\ UNCHANGED <<db, idx, potential_keys, untracked_tables, potential_foreign_keys,
                   potential_matches, verified_matches, verification_results,
                   remaining_matches, strengths, strong_matches, report, calls,
                   reloaded, args, ret>>

\* main lines 711-731: one iteration of the loop over strong_matches
VerifyStrong ==
    /\ pc = "verify2"
    /\ idx <= Len(strong_matches)
    /\ VerifyAndRecord(strong_matches[idx][1])
    /\ idx' = idx + 1
    /\ UNCHANGED <<db, pc, potential_keys, untracked_tables, potential_foreign_keys,
                   potential_matches, remaining_matches, strengths, strong_matches,
                   report, reloaded, args, ret>>

\* main lines 733-743
UpdateResults ==
    /\ pc = "verify2"
    /\ idx > Len(strong_matches)
    /\ report' = SavedReport
    /\ pc' = "finish"
    /\ UNCHANGED <<db, idx, potential_keys, untracked_tables, potential_foreign_keys,
                   potential_matches, verified_matches, verification_results,
                   remaining_matches, strengths, strong_matches, calls, reloaded,
                   args, ret>>

\* main lines 749-788: descriptions, diagram, viewer; the run completes
Finish ==
    /\ pc = "finish"
    /\ pc' = "done"
    /\ UNCHANGED <<db, idx, potential_keys, untracked_tables, potential_foreign_keys,
                   potential_matches, verified_matches, verification_results,
                   remaining_matches, strengths, strong_matches, report, calls,
                   reloaded, args, ret>>

\* main with csv_file (lines 520-523): a later run reads the report back
Reload ==
    /\ pc = "done"
    /\ report.written
    /\ reloaded' = [read |-> TRUE, out |-> read_verified_matches(report.rows)]
    /\ pc' = "reloaded"
    /\ UNCHANGED <<db, idx, potential_keys, untracked_tables, potential_foreign_keys,
                   potential_matches, verified_matches, verification_results,
                   remaining_matches, strengths, strong_matches, report, calls,
                   args, ret>>

\* The pipeline from the candidate lists on (main from line 622).
NextMatch ==
    \/ GenerateMatches
    \/ VerifyMatch
    \/ SaveResults
    \/ Fallback
    \/ RateMatches
    \/ RateFails
    \/ VerifyStrong
    \/ UpdateResults
    \/ Finish
    \/ Reload

Next ==
    \/ FindKeys
    \/ FindForeignKeys
    \/ NextMatch

Spec == Init /\ [][Next]_vars

\* ------------------------------------------------------------------------
\* The checks of the classifier applied to one column
\* ------------------------------------------------------------------------
Idle == [tables |-> <<>>, lagOk |-> TRUE]

\* Everything of the pipeline at rest, for a function applied on its own.
PipelineIdle ==
    /\ idx = 1
    /\ potential_keys = <<>>
    /\ untracked_tables = <<>>
    /\ potential_foreign_keys = <<>>
    /\ potential_matches = <<>>
    /\ verified_matches = <<>>
    /\ verification_results = <<>>
    /\ remaining_matches = <<>>
    /\ strengths = <<>>
    /\ strong_matches = <<>>
    /\ report = NoReport
    /\ calls = <<>>
    /\ reloaded = NotReloaded

\* The columns of at most MaxRows cells, NULL or a value up to MaxVal.
SmallColumns == UNION { [1..n -> 0..MaxVal] : n \in 0..MaxRows }

\* The column 1, 3, 5, ... of pairs + 1 values whose first gaps steps are 2
\* and whose other steps are 1.
GapColumn(pairs, gaps) ==
    [i \in 1..(pairs + 1) |-> IF i <= gaps THEN 2 * i - 1 ELSE i + gaps]

\* The columns of up to MaxLongPairs adjacent pairs with up to MaxGaps gaps.
LongColumns ==
    { GapColumn(t, g) : t \in 1..MaxLongPairs, g \in 0..MaxGaps }

InitAuto ==
    /\ db = Idle
    /\ pc = "call"
    /\ PipelineIdle
    /\ args \in { [col |-> c, lagOk |-> ok] :
                     c \in SmallColumns \cup LongColumns, ok \in BOOLEAN }
    /\ ret = <<>>

\* is_field_unique and is_auto_incrementing applied to the column
ApplyAutoInc ==
    /\ pc = "call"
    /\ ret' = [unique |-> is_field_unique(args.col),
               auto |-> is_auto_incrementing(args.col, args.lagOk)]
    /\ pc' = "returned"
    /\ UNCHANGED <<db, idx, potential_keys, untracked_tables, potential_foreign_keys,
                   potential_matches, verified_matches, verification_results,
                   remaining_matches, strengths, strong_matches, report, calls,
                   reloaded, args>>

NextAuto == ApplyAutoInc

SpecAuto == InitAuto /\ [][NextAuto]_vars

\* C2: a column with zero or one non-null cell (no adjacent pair) is never
\* found auto-incrementing.
C2_NoVacuousAutoIncrement ==
    (pc = "returned" /\ Len(NonNull(args.col)) <= 1) => ret.auto = FALSE

C2_Witness ==
    /\ pc = "returned"
    /\ args.lagOk
    /\ Len(args.col) = 2
    /\ Len(NonNull(args.col)) = 1
    /\ ret.auto = FALSE

\* The adjacent pairs of the non-null values in ascending order, and those
\* whose second value is the first plus 1.
AdjacentPairs(col) == Len(NonNull(col)) - 1
SequentialPairs(col) ==
    Cardinality({ i \in 1..(Len(NonNull(col)) - 1) :
                      OrderBy(NonNull(col))[i + 1] = OrderBy(NonNull(col))[i] + 1 })

RECURSIVE Ascending(_)
\* The values of a set in ascending order.
Ascending(S) ==
    IF S = {} THEN <<>>
    ELSE LET m == CHOOSE x \in S : \A y \in S : x <= y
         IN  <<m>> \o Ascending(S \ {m})

\* A child column: each value of S in dup rows, and nulls rows of NULL.
FkColumn(S, dup, nulls) ==
    Concat([i \in 1..Len(Ascending(S)) |-> Repeat(Ascending(S)[i], dup)])
        \o Repeat(NULL, nulls)

\* A child column whose smallest value only is in dup rows.
SkewColumn(S, dup, nulls) ==
    (IF S = {} THEN <<>> ELSE Repeat(Head(Ascending(S)), dup - 1))
        \o FkColumn(S, 1, nulls)

Thresholds == { Frac(1, 10), Frac(1, 5), Frac(1, 4) }

InitVerify ==
    /\ db = Idle
    /\ pc = "call"
    /\ PipelineIdle
    /\ args \in { [pkcol |-> Ascending(P), fkcol |-> col, threshold |-> t] :
                     P \in SUBSET (1..MaxVal),
                     col \in { FkColumn(S, d, n) : S \in SUBSET (1..MaxVal),
                                                  d \in 1..MaxDup, n \in 0..MaxNulls }
                             \cup { SkewColumn(S, d, n) : S \in SUBSET (1..MaxVal),
                                                     d \in 1..MaxDup, n \in 0..MaxNulls },
                     t \in Thresholds }
    /\ ret = <<>>

ApplyVerify ==
    /\ pc = "call"
    /\ \E fault \in Faults :
           ret' = [fault |-> fault,
                   result |-> verify_relationship(args.pkcol, args.fkcol,
                                                  args.threshold, fault)]
    /\ pc' = "returned"
    /\ UNCHANGED <<db, idx, potential_keys, untracked_tables, potential_foreign_keys,
                   potential_matches, verified_matches, verification_results,
                   remaining_matches, strengths, strong_matches, report, calls,
                   reloaded, args>>

NextVerify == ApplyVerify

SpecVerify == InitVerify /\ [][NextVerify]_vars

\* The distinct non-null child values, and those with no parent value.
FkValues(fkcol) == { fkcol[i] : i \in 1..Len(fkcol) } \ {NULL}
InvalidValues(pkcol, fkcol) ==
    FkValues(fkcol) \ { pkcol[i] : i \in 1..Len(pkcol) }

\* C4: when its queries execute, verify_relationship rejects exactly when
\* invalid / total distinct is strictly greater than the threshold: 1 invalid
\* of 5 is rejected under 0.1 and accepted under 0.25, and a ratio equal to
\* the threshold is accepted.
C4_RejectsAboveThreshold ==
    (pc = "returned" /\ ret.fault = "none") =>
        LET invalid == Cardinality(InvalidValues(args.pkcol, args.fkcol))
            total == Cardinality(FkValues(args.fkcol))
        IN  /\ ret.result.verified =
                  ~ (total > 0 /\ invalid * args.threshold.den
                                     > args.threshold.num * total)
            /\ (invalid = 1 /\ total = 5 /\ args.threshold = Frac(1, 10))
                   => ~ ret.result.verified
            /\ (invalid = 1 /\ total = 5 /\ args.threshold = Frac(1, 4))
                   => ret.result.verified
            /\ (total > 0 /\ invalid * args.threshold.den = args.threshold.num * total)
                   => ret.result.verified

\* One invalid value of five, equal to the threshold 0.2, is accepted.
C4_Witness ==
    /\ pc = "returned"
    /\ ret.fault = "none"
    /\ Cardinality(InvalidValues(args.pkcol, args.fkcol)) = 1
    /\ Cardinality(FkValues(args.fkcol)) = 5
    /\ args.threshold = Frac(1, 5)
    /\ ret.result.verified

\* C26: when its queries execute, the decision of verify_relationship
\* depends only on the set of distinct non-null fk values and the set of pk
\* values: the counts of the integrity query, hence the invalid ratio, and
\* the verdict are those of the column holding each distinct non-null value
\* once, whatever rows are duplicated and whatever null rows are added; a
\* column with no non-null value has ratio 0 and is accepted.
C26_DependsOnDistinctValues ==
    (pc = "returned" /\ ret.fault = "none") =>
        LET distinct == Ascending(FkValues(args.fkcol))
            once == verify_relationship(args.pkcol, distinct, args.threshold, "none")
        IN  /\ IntegrityQuery(args.pkcol, args.fkcol)
                   = [invalid_distinct_count |->
                          Cardinality(InvalidValues(args.pkcol, args.fkcol)),
                      total_distinct_count |-> Cardinality(FkValues(args.fkcol))]
            /\ ret.result.verified = once.verified
            /\ ~ ret.result.verified => ret.result.reason = once.reason
            /\ FkValues(args.fkcol) = {} => ret.result.verified

\* A column with a duplicated value and a null row, one distinct value of
\* four without a parent, is accepted under the threshold 0.25 as the
\* column of its four distinct values is.
C26_Witness ==
    /\ pc = "returned"
    /\ ret.fault = "none"
    /\ NULL \in Range(args.fkcol)
    /\ Len(NonNull(args.fkcol)) > Cardinality(FkValues(args.fkcol))
    /\ Cardinality(InvalidValues(args.pkcol, args.fkcol)) = 1
    /\ Cardinality(FkValues(args.fkcol)) = 4
    /\ args.threshold = Frac(1, 4)
    /\ ret.result.verified

\* C30: the coverage of every accepted result is a proportion between 0 and
\* 100: distinct_values_pk is positive and distinct_values_fk does not
\* exceed it.
C30_CoverageIsProportion ==
    (pc = "returned" /\ ret.result.verified) =>
        LET stats == ret.result.stats
        IN  /\ stats.distinct_values_pk > 0
            /\ stats.distinct_values_fk <= stats.distinct_values_pk
            /\ IsNumber(stats.coverage)
            /\ stats.coverage.num <= 100 * stats.coverage.den

\* The keys of the stats record of an accepted result.
StatsKeys ==
    {"referential_integrity", "null_percentage", "distinct_values_fk",
     "distinct_values_pk", "coverage"}

\* C11: a result with verified = true carries a stats record and no reason,
\* a result with verified = false carries a reason and no stats record, on
\* the integrity rejection, the acceptance and the caught exception.
C11_StatsIffVerified ==
    pc = "returned" =>
        /\ ret.result.verified =>
               /\ DOMAIN ret.result = {"verified", "stats"}
               /\ DOMAIN ret.result.stats = StatsKeys
               /\ ret.fault = "none"
        /\ ~ ret.result.verified =>
               /\ DOMAIN ret.result = {"verified", "reason"}
               /\ ret.result.reason.kind \in {"integrity", "error"}
               /\ ret.fault = "none" => ret.result.reason.kind = "integrity"

\* The usage query raised after the integrity test passed: a reason, no stats.
C11_Witness ==
    /\ pc = "returned"
    /\ ret.fault = "usage"
    /\ ~ RatioExceeds(Cardinality(InvalidValues(args.pkcol, args.fkcol)),
                      Cardinality(FkValues(args.fkcol)), args.threshold)
    /\ DOMAIN ret.result = {"verified", "reason"}
    /\ ret.result.reason.kind = "error"

\* ------------------------------------------------------------------------
\* Properties of the classifier in a pipeline run
\* ------------------------------------------------------------------------
Classified == pc # "keys"
Enumerated == pc \notin {"keys", "fks"}

\* The key candidates of a table.
KeysOfTable(table) == { k \in Range(potential_keys) : k[1] = table }

\* Strictly sequential with no gaps: no NULL, and in ascending order every
\* value is the previous one plus 1.
StrictlySequential(col) ==
    /\ NULL \notin Range(col)
    /\ \A i \in 1..(Len(col) - 1) : OrderBy(col)[i + 1] = OrderBy(col)[i] + 1

\* The declared primary-key columns, as pairs <<table, field>>.
DeclaredRefs ==
    UNION { { <<t.name, t.pk[j]>> : j \in 1..Len(t.pk) } : t \in Range(db.tables) }

SequentialDeclaredRefs ==
    { k \in DeclaredRefs : StrictlySequential(ColumnData(db, k[1], k[2])) }

\* C1 as stated: every declared primary-key column that is strictly
\* sequential is the one and only key candidate of its table, and the table
\* is not untracked, whatever the row count and the number of declared
\* columns.
C1_AsStated ==
    Classified =>
        \A k \in SequentialDeclaredRefs :
            /\ KeysOfTable(k[1]) = {k}
            /\ k[1] \notin Range(untracked_tables)

\* C1 as amended: when the column has at least two rows and the server
\* executes the auto-increment query, the column is a key candidate of its
\* table and the table is not untracked; every key candidate of the table is
\* a declared primary-key column, so the column is the only candidate when
\* it is the only declared one.
C1_SequentialDeclaredKeyIsCandidate ==
    Classified =>
        \A k \in SequentialDeclaredRefs :
            (Len(ColumnData(db, k[1], k[2])) >= 2 /\ db.lagOk) =>
                /\ k \in KeysOfTable(k[1])
                /\ k[1] \notin Range(untracked_tables)
                /\ KeysOfTable(k[1]) \subseteq DeclaredRefs
                /\ Len(get_primary_keys(db, k[1])) = 1 => KeysOfTable(k[1]) = {k}

\* A composite declared key with two sequential columns: both are candidates.
C1_Witness ==
    /\ Classified
    /\ db.lagOk
    /\ \E k \in SequentialDeclaredRefs :
           /\ Len(ColumnData(db, k[1], k[2])) >= 2
           /\ Cardinality(KeysOfTable(k[1])) = 2

ShopRefs == { <<tUsers, fId>>, <<tOrders, fOrderId>>, <<tOrders, fUserId>> }

\* The scenario of C6: users(id, name) and orders(order_id, user_id, total),
\* no declared keys, users.id sequential 1..N with N >= 2.
ShopScenario ==
    /\ get_all_tables(db) = <<tOrders, tUsers>>
    /\ get_table_columns(db, tUsers) = <<fId, fName>>
    /\ get_table_columns(db, tOrders) = <<fOrderId, fUserId, fTotal>>
    /\ get_primary_keys(db, tUsers) = <<>>
    /\ get_primary_keys(db, tOrders) = <<>>
    /\ Len(ColumnData(db, tUsers, fId)) >= 2
    /\ ColumnData(db, tUsers, fId) = [i \in 1..Len(ColumnData(db, tUsers, fId)) |-> i]

\* C6 as stated: the key candidates are exactly [(users, id)] and the
\* foreign-key candidates exactly [(orders, user_id)].
C6_AsStated ==
    (Enumerated /\ ShopScenario /\ db.lagOk) =>
        /\ potential_keys = << <<tUsers, fId>> >>
        /\ potential_foreign_keys = << <<tOrders, fUserId>> >>

\* C6 as amended: (users, id) is the key candidate of users; each of
\* orders.order_id and orders.user_id is in exactly one of the two results,
\* a key candidate if it passes the uniqueness and auto-increment filters
\* and a foreign-key candidate otherwise; nothing else is in either.
C6_ShopClassification ==
    (Enumerated /\ ShopScenario /\ db.lagOk) =>
        /\ KeysOfTable(tUsers) = { <<tUsers, fId>> }
        /\ Range(potential_keys) \subseteq ShopRefs
        /\ Range(potential_foreign_keys)
               = { <<tOrders, fOrderId>>, <<tOrders, fUserId>> } \ Range(potential_keys)
        /\ \A k \in { <<tOrders, fOrderId>>, <<tOrders, fUserId>> } :
               k \in Range(potential_keys) <=> Qualifies(db, k[1], k[2])

\* orders.order_id is a key candidate and orders.user_id a foreign key.
C6_Witness ==
    /\ Enumerated
    /\ ShopScenario
    /\ db.lagOk
    /\ potential_keys = << <<tOrders, fOrderId>>, <<tUsers, fId>> >>
    /\ potential_foreign_keys = << <<tOrders, fUserId>> >>

\* C12: once find_potential_keys and find_potential_foreign_keys have run, no
\* (table, field) pair is both a key candidate and a foreign-key candidate.
C12_CandidatesDisjoint ==
    Enumerated => Range(potential_keys) \cap Range(potential_foreign_keys) = {}

\* An ID-like column is a key candidate, and there are foreign-key candidates.
C12_Witness ==
    /\ Enumerated
    /\ \E k \in Range(potential_keys) : IsIdLike(k[2])
    /\ potential_foreign_keys # <<>>

\* The tables with declared primary-key columns none of which passes the
\* uniqueness and auto-increment filter.
DeclaredButUnreliable ==
    { t \in Range(get_all_tables(db)) :
          get_primary_keys(db, t) # <<>> /\ DeclaredKeys(db, t) = <<>> }

\* C16: a table with declared primary-key columns none of which passes both
\* filters is untracked and has no key candidate: the column named id and
\* the ID-like columns are not considered, even if one would qualify.
C16_DeclaredFailureIsUntracked ==
    Classified =>
        \A t \in DeclaredButUnreliable :
            /\ t \in Range(untracked_tables)
            /\ KeysOfTable(t) = {}

\* The declared key of a table fails the filter while its column named id
\* would qualify.
C16_Witness ==
    /\ Classified
    /\ \E t \in DeclaredButUnreliable :
           /\ IdKeys(db, t) # <<>>
           /\ t \in Range(untracked_tables)

\* The columns of a table that satisfy a test on the name and pass the
\* uniqueness and auto-increment filter.
QualifyingRefs(t, Test(_)) ==
    { <<t, f>> : f \in { g \in Range(get_table_columns(db, t)) :
                             Test(g) /\ Qualifies(db, t, g) } }

\* The tables with no declared primary key that have a column named id.
TablesWithId ==
    { t \in Range(get_all_tables(db)) :
          /\ get_primary_keys(db, t) = <<>>
          /\ \E f \in Range(get_table_columns(db, t)) : IsIdColumn(f) }

\* C21 as stated: when the column named id of a table with no declared key
\* fails the filter, the ID-like columns are still evaluated: those that
\* qualify are key candidates and the table is not untracked.
C21_AsStated ==
    Classified =>
        \A t \in TablesWithId :
            (QualifyingRefs(t, IsIdColumn) = {} /\ QualifyingRefs(t, IsIdLike) # {}) =>
                /\ QualifyingRefs(t, IsIdLike) \subseteq KeysOfTable(t)
                /\ t \notin Range(untracked_tables)

\* C21 as amended: for a table with no declared key that has a column named
\* id, the chain stops at step 2 whether or not it yields a field: the key
\* candidates are columns named id, and the table is untracked when none of
\* them passes the filter, even if an ID-like column qualifies.
C21_IdColumnStopsChain ==
    Classified =>
        \A t \in TablesWithId :
            /\ KeysOfTable(t) \subseteq QualifyingRefs(t, IsIdColumn)
            /\ Cardinality(KeysOfTable(t)) <= 1
            /\ KeysOfTable(t) = {} <=> QualifyingRefs(t, IsIdColumn) = {}
            /\ t \in Range(untracked_tables) <=> KeysOfTable(t) = {}

\* The column named ID of a table fails the filter, its ID-like column
\* qualifies, and the table is untracked.
C21_Witness ==
    /\ Classified
    /\ \E t \in TablesWithId :
           /\ QualifyingRefs(t, IsIdColumn) = {}
           /\ QualifyingRefs(t, IsIdLike) # {}
           /\ t \in Range(untracked_tables)

\* The tables with declared primary-key columns.
TablesWithDeclaredKey ==
    { t \in Range(get_all_tables(db)) : get_primary_keys(db, t) # <<>> }

\* The declared primary-key columns of a table that pass the filter.
QualifyingDeclared(t) ==
    { <<t, f>> : f \in { g \in Range(get_primary_keys(db, t)) : Qualifies(db, t, g) } }

\* C22 as stated: a table one of whose declared primary-key columns fails
\* the filter is untracked and has no key candidate, even when another
\* declared column passes.
C22_AsStated ==
    Classified =>
        \A t \in TablesWithDeclaredKey :
            (\E f \in Range(get_primary_keys(db, t)) : ~ Qualifies(db, t, f)) =>
                /\ t \in Range(untracked_tables)
                /\ KeysOfTable(t) = {}

\* C22 as amended: step 1 is per column: the key candidates of a table with
\* declared primary-key columns are the declared columns that pass the
\* filter, and the table is untracked only if none of them passes.
C22_DeclaredKeysPerColumn ==
    Classified =>
        \A t \in TablesWithDeclaredKey :
            /\ KeysOfTable(t) = QualifyingDeclared(t)
            /\ t \in Range(untracked_tables) <=> QualifyingDeclared(t) = {}

\* A composite declared key with one column that passes and one that fails:
\* the first is a key candidate and the table is not untracked.
C22_Witness ==
    /\ Classified
    /\ \E t \in TablesWithDeclaredKey :
           /\ QualifyingDeclared(t) # {}
           /\ \E f \in Range(get_primary_keys(db, t)) : ~ Qualifies(db, t, f)
           /\ KeysOfTable(t) = QualifyingDeclared(t)
           /\ t \notin Range(untracked_tables)

\* C27: find_potential_keys partitions the tables: every table has at least
\* one entry in primary_keys or is exactly once in untracked_tables, never
\* both, and the two lists name tables of the database only.
C27_TablesPartitioned ==
    Classified =>
        /\ \A t \in Range(get_all_tables(db)) :
               LET listed == { i \in 1..Len(untracked_tables) : untracked_tables[i] = t }
               IN  /\ KeysOfTable(t) # {} => listed = {}
                   /\ KeysOfTable(t) = {} => Cardinality(listed) = 1
        /\ Range(untracked_tables) \subseteq Range(get_all_tables(db))
        /\ { k[1] : k \in Range(potential_keys) } \subseteq Range(get_all_tables(db))

\* A database with a table that has a key candidate and an untracked table.
C27_Witness ==
    /\ Classified
    /\ untracked_tables # <<>>
    /\ \E t \in Range(get_all_tables(db)) : Cardinality(KeysOfTable(t)) = 1
    /\ Range(untracked_tables) \cup { k[1] : k \in Range(potential_keys) }
           = Range(get_all_tables(db))
    /\ Len(get_all_tables(db)) >= 2

\* ------------------------------------------------------------------------
\* Properties of the rating step
\* ------------------------------------------------------------------------
\* The calls of verify_relationship made by the loop over strong_matches:
\* those after the calls of the loop over potential_matches.
FallbackCalls == { i \in 1..Len(calls) : i > Len(potential_matches) }

\* The positions of remaining_matches that were rated normal or above.
RatedStrong ==
    { j \in 1..Len(remaining_matches) :
          j <= Len(strengths) /\ strengths[j] \in StrongEnough }

\* C13: every match of verified_matches was returned verified = true by a
\* call of verify_relationship on that pair; a fallback candidate is
\* submitted to verify_relationship only if it is rated normal, strong or
\* very strong, and a candidate rated otherwise is neither submitted by the
\* fallback pass nor accepted.
C13_RatingIsAdvisory ==
    /\ \A m \in Range(verified_matches) :
           \E i \in 1..Len(calls) : calls[i].match = m /\ calls[i].result.verified
    /\ \A i \in FallbackCalls :
           \E j \in RatedStrong : remaining_matches[j] = calls[i].match
    /\ \A j \in (1..Len(remaining_matches)) \ RatedStrong :
           /\ \A i \in FallbackCalls : calls[i].match # remaining_matches[j]
           /\ remaining_matches[j] \notin Range(verified_matches)

\* Of two fallback candidates one was rated strong, submitted and rejected,
\* and the other was rated weak; nothing was accepted.
C13_Witness ==
    /\ pc = "done"
    /\ Len(remaining_matches) = 2
    /\ Cardinality(RatedStrong) = 1
    /\ \E j \in RatedStrong : strengths[j] = "very strong"
    /\ \E i \in FallbackCalls : ~ calls[i].result.verified
    /\ verified_matches = <<>>

\* C14: get_matches_from_openai never raises: whatever becomes of the rating
\* request (it fails, or its answer is not parsable), the call returns a list
\* of ratings and the run continues with the filter of main.
C14_RatingNeverRaises ==
    [][pc = "rate" => pc' \in {"verify2", "finish"}]_vars

\* The matches the name pass verified: the accepted ones among the first
\* Len(potential_matches) submissions.
NamePassVerified ==
    { calls[i].match : i \in { j \in 1..Len(calls) :
                                   j <= Len(potential_matches) /\ calls[j].result.verified } }

\* The pairs of a key candidate and a foreign-key candidate of different
\* tables, neither of which is a side of a match the name pass verified.
UnusedPairs ==
    { Match(p[1], p[2]) :
          p \in { q \in Range(potential_keys) \X Range(potential_foreign_keys) :
                      /\ q[1][1] # q[2][1]
                      /\ \A m \in NamePassVerified : PkOf(m) # q[1] /\ FkOf(m) # q[2] } }

Rated == pc \in {"verify2", "finish", "done", "reloaded", "aborted"}

\* C25: the fallback candidates handed to the rating step are exactly the
\* pairs of an unused key candidate and an unused foreign-key candidate of
\* different tables, so no key of a match verified by the name pass is in
\* one; the rating step is entered only from the fallback step, only with a
\* non-empty list, and is left for good by its one request.
C25_FallbackCandidates ==
    [][ /\ pc' \in {"rate", "verify2"} =>
              /\ Range(remaining_matches') = UnusedPairs'
              /\ Len(remaining_matches') = Cardinality(UnusedPairs')
        /\ pc' = "rate" => (pc = "fallback" /\ remaining_matches' # <<>>)
        /\ pc = "fallback" => (pc' = "rate" <=> UnusedPairs' # {})
        /\ pc = "rate" => Rated'
        /\ Rated => Rated' ]_vars

\* The name pass verified a match, and unused keys of different tables were
\* left and handed to the rating step.
C25_Witness ==
    /\ pc = "rate"
    /\ NamePassVerified # {}
    /\ remaining_matches # <<>>
    /\ Range(remaining_matches) = UnusedPairs

\* C29 as stated: no candidate pair is submitted to verify_relationship
\* twice in a run.
C29_AsStated ==
    \A i, j \in 1..Len(calls) : calls[i].match = calls[j].match => i = j

\* C29 as amended: a pair is submitted at most once by each pass, and a pair
\* the name pass verified is not submitted again; a pair submitted twice was
\* rejected by the name pass and submitted again by the fallback pass.
C29_OncePerPass ==
    \A i, j \in 1..Len(calls) :
        (i < j /\ calls[i].match = calls[j].match) =>
            /\ i <= Len(potential_matches)
            /\ j \in FallbackCalls
            /\ ~ calls[i].result.verified

\* A pair the name pass rejected on its data was rated promising and
\* submitted again by the fallback pass, with the same rejection.
C29_Witness ==
    \E i, j \in 1..Len(calls) :
        /\ i <= Len(potential_matches)
        /\ j \in FallbackCalls
        /\ calls[i].match = calls[j].match
        /\ calls[i].result.reason.kind = "integrity"
        /\ calls[j].result = calls[i].result

\* ------------------------------------------------------------------------
\* Properties of the report
\* ------------------------------------------------------------------------
Seqs(matches) == { matches[i] : i \in 1..Len(matches) }

\* The tables that own a key or foreign-key candidate.
CandidateTables ==
    { k[1] : k \in Range(potential_keys) \cup Range(potential_foreign_keys) }

\* No table or field name of the run is a missing-value token of pd.read_csv.
NamesSurviveCsv ==
    /\ \A k \in Range(potential_keys) \cup Range(potential_foreign_keys) :
           k[1] \notin NaValues /\ k[2] \notin NaValues
    /\ \A t \in Range(untracked_tables) : t \notin NaValues

Mirrors(pk_row, fk_row) ==
    /\ pk_row.field_type = chPK
    /\ fk_row.field_type = chFK
    /\ pk_row.relationship
           = chArrowToFk \o fk_row.table_name \o chDot \o fk_row.field_name
    /\ fk_row.relationship
           = chArrowToPk \o pk_row.table_name \o chDot \o pk_row.field_name

\* C9: for every verified match of the report, the FK-role row's source is
\* the PK-role row's target and its target the PK-role row's source, while
\* null_percentage, coverage, verified and status are the same on both rows.
C9_StatsSymmetry ==
    /\ \A pk_row, fk_row \in Range(report.rows) :
           Mirrors(pk_row, fk_row) =>
               /\ fk_row.distinct_values_source = pk_row.distinct_values_target
               /\ fk_row.distinct_values_target = pk_row.distinct_values_source
               /\ fk_row.null_percentage = pk_row.null_percentage
               /\ fk_row.coverage = pk_row.coverage
               /\ fk_row.verified = pk_row.verified
               /\ fk_row.status = pk_row.status
    /\ report.written =>
           \A i \in 1..Len(report.rows) :
               report.rows[i].status = chVerified =>
                   \E j \in 1..Len(report.rows) :
                       \/ Mirrors(report.rows[i], report.rows[j])
                       \/ Mirrors(report.rows[j], report.rows[i])

\* A verified match whose two distinct-value counts differ is in the report.
C9_Witness ==
    /\ report.written
    /\ \E pk_row, fk_row \in Range(report.rows) :
           /\ Mirrors(pk_row, fk_row)
           /\ pk_row.verified
           /\ pk_row.distinct_values_source # pk_row.distinct_values_target

\* The rows of the report for a column in a role.
RowsOf(key, field_type) ==
    { i \in 1..Len(report.rows) :
          /\ report.rows[i].table_name = key[1]
          /\ report.rows[i].field_name = key[2]
          /\ report.rows[i].field_type = field_type }

\* The verified matches a key is the parent (resp. child) side of.
MatchesOfPk(key) == { i \in 1..Len(verified_matches) : PkOf(verified_matches[i]) = key }
MatchesOfFkSide(key) == { i \in 1..Len(verified_matches) : FkOf(verified_matches[i]) = key }

AtLeastOne(n) == IF n = 0 THEN 1 ELSE n

\* The report on file was written from the present verified_matches: the
\* loop over strong_matches extends the list before main saves it again.
ReportCurrent == report.written /\ pc # "verify2"

\* C17 as stated: no two rows of the report share table_name, field_name
\* and field_type, also when a key is in several verified matches.
C17_AsStated ==
    report.written =>
        \A k \in Range(potential_keys) \cup Range(potential_foreign_keys) :
            /\ Cardinality(RowsOf(k, chPK)) <= 1
            /\ Cardinality(RowsOf(k, chFK)) <= 1

\* C17 as amended: every verified match contributes one PK-role row and one
\* FK-role row, so a key has one row per match it is the side of, and one
\* row when it is in none; no two rows share table_name, field_name,
\* field_type and relationship.
C17_OneRowPerMatchSide ==
    ReportCurrent =>
        /\ \A k \in Range(potential_keys) :
               Cardinality(RowsOf(k, chPK)) = AtLeastOne(Cardinality(MatchesOfPk(k)))
        /\ \A k \in Range(potential_foreign_keys) :
               Cardinality(RowsOf(k, chFK)) = AtLeastOne(Cardinality(MatchesOfFkSide(k)))
        /\ \A i, j \in 1..Len(report.rows) :
               (/\ report.rows[i].table_name = report.rows[j].table_name
                /\ report.rows[i].field_name = report.rows[j].field_name
                /\ report.rows[i].field_type = report.rows[j].field_type
                /\ report.rows[i].relationship = report.rows[j].relationship)
                   => i = j

\* A primary key is the parent of two verified matches and has two rows.
C17_Witness ==
    /\ report.written
    /\ pc = "done"
    /\ \E k \in Range(potential_keys) :
           /\ Cardinality(MatchesOfPk(k)) = 2
           /\ Cardinality(RowsOf(k, chPK)) = 2

\* The rows of the report that mark a key as unused.
UnusedRowsOf(key, field_type, status) ==
    { i \in RowsOf(key, field_type) : report.rows[i].status = status }

\* A row of an unused key: no relationship, not verified, no statistics.
IsBlank(row) ==
    /\ row.relationship = chNoRelationships
    /\ row.verified = FALSE
    /\ row.referential_integrity = None
    /\ row.null_percentage = None
    /\ row.distinct_values_source = None
    /\ row.distinct_values_target = None
    /\ row.coverage = None

\* C18: a key (resp. foreign-key) candidate that is the pk (resp. fk) side
\* of no saved match has exactly one row, marked "unused primary key"
\* (resp. "unused foreign key"), with "No relationships", verified false and
\* no statistics; a candidate that is the side of a match has no such row.
C18_UnusedKeyRows ==
    ReportCurrent =>
        /\ \A k \in Range(potential_keys) :
               /\ Cardinality(UnusedRowsOf(k, chPK, chUnusedPk))
                      = (IF MatchesOfPk(k) = {} THEN 1 ELSE 0)
               /\ MatchesOfPk(k) = {} => Cardinality(RowsOf(k, chPK)) = 1
               /\ \A i \in UnusedRowsOf(k, chPK, chUnusedPk) : IsBlank(report.rows[i])
        /\ \A k \in Range(potential_foreign_keys) :
               /\ Cardinality(UnusedRowsOf(k, chFK, chUnusedFk))
                      = (IF MatchesOfFkSide(k) = {} THEN 1 ELSE 0)
               /\ MatchesOfFkSide(k) = {} => Cardinality(RowsOf(k, chFK)) = 1
               /\ \A i \in UnusedRowsOf(k, chFK, chUnusedFk) : IsBlank(report.rows[i])

\* The report holds a used and an unused key candidate, and an unused
\* foreign-key candidate.
C18_Witness ==
    /\ ReportCurrent
    /\ \E k \in Range(potential_keys) : MatchesOfPk(k) # {}
    /\ \E k \in Range(potential_keys) : UnusedRowsOf(k, chPK, chUnusedPk) # {}
    /\ \E k \in Range(potential_foreign_keys) : UnusedRowsOf(k, chFK, chUnusedFk) # {}

\* The run is over: it completed, or the rating request raised.
Terminated == pc \in {"done", "aborted", "reloaded"}

\* C10: every run whose schema introspection succeeded completes having
\* written the report, also when nothing was verified and when the rating
\* capability fails.
C10_ReportAlwaysWritten ==
    Terminated => (pc # "aborted" /\ report.written)

\* The statistics columns of a report row are those of the result, the
\* distinct counts of source and target in the order given.
CarriesStats(row, result, source, target) ==
    /\ row.verified
    /\ row.null_percentage = Some(result.stats.null_percentage)
    /\ row.distinct_values_source = Some(source)
    /\ row.distinct_values_target = Some(target)
    /\ row.coverage = Some(result.stats.coverage)

\* C28: verified_matches and verification_results have the same length, the
\* i-th result is the accepting outcome of the verification of the i-th
\* match, both lists only grow by appending in both passes, and the two
\* rows of each match in the report carry the statistics of its result.
C28_ListsStayParallel ==
    [][ /\ Len(verified_matches') = Len(verification_results')
        /\ \A i \in 1..Len(verified_matches') :
               /\ verification_results'[i].verified
               /\ verification_results'[i] = VerifyCall(verified_matches'[i], "none")
               /\ \E j \in 1..Len(calls') :
                      calls'[j] = [match |-> verified_matches'[i],
                                   result |-> verification_results'[i]]
        /\ Len(verified_matches') >= Len(verified_matches)
        /\ SubSeq(verified_matches', 1, Len(verified_matches)) = verified_matches
        /\ SubSeq(verification_results', 1, Len(verification_results))
               = verification_results
        /\ ReportCurrent' =>
               \A i \in 1..Len(verified_matches') :
                   LET m == verified_matches'[i]
                       r == verification_results'[i]
                       pkrow == report'.rows[2 * i - 1]
                       fkrow == report'.rows[2 * i]
                   IN  /\ <<pkrow.table_name, pkrow.field_name>> = PkOf(m)
                       /\ pkrow.field_type = chPK
                       /\ <<fkrow.table_name, fkrow.field_name>> = FkOf(m)
                       /\ fkrow.field_type = chFK
                       /\ CarriesStats(pkrow, r, r.stats.distinct_values_pk,
                                       r.stats.distinct_values_fk)
                       /\ CarriesStats(fkrow, r, r.stats.distinct_values_fk,
                                       r.stats.distinct_values_pk) ]_vars

\* The run ended with two verified matches of different statistics, the
\* second accepted by the fallback pass after a rejection, and the report
\* written from both.
C28_Witness ==
    /\ pc = "done"
    /\ ReportCurrent
    /\ Len(verified_matches) >= 2
    /\ verification_results[1] # verification_results[2]
    /\ \E j \in 1..Len(calls) : ~ calls[j].result.verified
    /\ \E j \in FallbackCalls : calls[j].result.verified

\* ------------------------------------------------------------------------
\* The pipeline from given candidate lists (main from line 622)
\* ------------------------------------------------------------------------
\* customers(id), invoices(client_ref, user_id),
\* orders(order_id, user_id, total), users(id, name)
MatchTables ==
    { << Table(tCustomers, <<fId>>, <<>>, <<"seq">>, MaxRows),
         Table(tInvoices, <<fClientRef, fUserId>>, <<>>, <<sc, "dup">>, MaxRows),
         Table(tOrders, <<fOrderId, fUserId, fTotal>>, <<>>, <<"seq", sr, "dup">>, no),
         Table(tUsers, <<fId, fName>>, <<>>, <<"seq", "dup">>, MaxRows) >> :
        sc \in KeyShapes, sr \in KeyShapes, no \in {0, MaxRows} }

MatchRefs ==
    << <<tCustomers, fId>>, <<tInvoices, fClientRef>>, <<tInvoices, fUserId>>,
       <<tOrders, fUserId>>, <<tUsers, fId>> >>

\* The lists of at most n of the columns above, in the order above.
RefLists(n) ==
    { SelectSeq(MatchRefs, LAMBDA r : r \in S) :
          S \in { T \in SUBSET Range(MatchRefs) : Cardinality(T) <= n } }

InitMatch ==
    /\ db \in { [tables |-> t, lagOk |-> TRUE] : t \in MatchTables }
    /\ pc = "match"
    /\ idx = 1
    /\ potential_keys \in RefLists(MaxPairs)
    /\ potential_foreign_keys \in RefLists(MaxPairs)
    /\ Len(potential_keys) * Len(potential_foreign_keys) <= MaxPairs
    /\ untracked_tables = <<>>
    /\ potential_matches = <<>>
    /\ verified_matches = <<>>
    /\ verification_results = <<>>
    /\ remaining_matches = <<>>
    /\ strengths = <<>>
    /\ strong_matches = <<>>
    /\ report = NoReport
    /\ calls = <<>>
    /\ reloaded = NotReloaded
    /\ args = <<>>
    /\ ret = <<>>

SpecMatch == InitMatch /\ [][NextMatch]_vars

\* Every candidate match the run has produced, submitted or accepted.
AllMatches ==
    Seqs(potential_matches) \cup Seqs(remaining_matches) \cup Seqs(verified_matches)
        \cup { strong_matches[i][1] : i \in 1..Len(strong_matches) }
        \cup { calls[i].match : i \in 1..Len(calls) }

\* C3: neither matcher emits a candidate whose pk table is its fk table, so
\* no such pair is ever submitted to the verifier or in verified_matches.
C3_NoSelfReference ==
    \A m \in AllMatches : m.table_pk # m.table_fk

\* The lists held a key and a foreign key of one table with the same base
\* name, and a same-table pair of unused keys, and the run completed.
C3_Witness ==
    /\ pc = "done"
    /\ \E pk \in Range(potential_keys), fk \in Range(potential_foreign_keys) :
           pk[1] = fk[1] /\ BaseField(pk[2]) = BaseField(fk[2])
    /\ \E pk \in Range(UnusedPks(potential_keys, verified_matches)),
          fk \in Range(UnusedFks(potential_foreign_keys, verified_matches)) :
           pk[1] = fk[1]
    /\ potential_matches # <<>>

UsersOrders == Match(<<tUsers, fId>>, <<tOrders, fUserId>>)

\* The scenario of C7: the candidate lists [(users, id)] and
\* [(orders, user_id)], every orders.user_id non-null and among users.id.
UsersOrdersScenario ==
    /\ potential_keys = << <<tUsers, fId>> >>
    /\ potential_foreign_keys = << <<tOrders, fUserId>> >>
    /\ Range(ColumnData(db, tOrders, fUserId))
           \subseteq Range(ColumnData(db, tUsers, fId)) \ {NULL}

Failed(result) == ~ result.verified /\ result.reason.kind = "error"

\* C7 as stated: generate_fk_pk_matches returns exactly the one candidate
\* (users, id) / (orders, user_id), and verify_relationship on it returns
\* verified = true with null_percentage = 0.
C7_AsStated ==
    (pc # "match" /\ UsersOrdersScenario) =>
        /\ potential_matches = <<UsersOrders>>
        /\ \A i \in 1..Len(calls) :
               (calls[i].match = UsersOrders /\ ~ Failed(calls[i].result)) =>
                   /\ calls[i].result.verified
                   /\ IsZero(calls[i].result.stats.null_percentage)

\* C7 as amended: generate_fk_pk_matches returns no candidate for these
\* lists (the base names id and user differ); the pair is the one candidate
\* of generate_all_possible_matches, and verify_relationship on it, when its
\* queries execute, returns verified = true, with null_percentage = 0 when
\* orders has rows and the quotient 0/0 (not a number) when it has none.
C7_UsersOrdersMatching ==
    (pc # "match" /\ UsersOrdersScenario) =>
        /\ potential_matches = <<>>
        /\ pc \notin {"verify", "fallback"} => remaining_matches = <<UsersOrders>>
        /\ \A i \in 1..Len(calls) :
               (calls[i].match = UsersOrders /\ ~ Failed(calls[i].result)) =>
                   /\ calls[i].result.verified
                   /\ Len(ColumnData(db, tOrders, fUserId)) > 0
                          => IsZero(calls[i].result.stats.null_percentage)
                   /\ Len(ColumnData(db, tOrders, fUserId)) = 0
                          => ~ IsNumber(calls[i].result.stats.null_percentage)

\* The pair was rated, verified by the fallback pass and accepted, over an
\* orders table that has rows.
C7_Witness ==
    /\ pc = "done"
    /\ UsersOrdersScenario
    /\ Len(ColumnData(db, tOrders, fUserId)) > 0
    /\ verified_matches = <<UsersOrders>>
    /\ IsZero(verification_results[1].stats.null_percentage)

CustomersInvoices == Match(<<tCustomers, fId>>, <<tInvoices, fClientRef>>)

\* The positions of remaining_matches the rating service rated "very weak".
RatedVeryWeak(m) ==
    \E i \in 1..Len(remaining_matches) :
        /\ remaining_matches[i] = m
        /\ i <= Len(strengths)
        /\ strengths[i] = "very weak"

\* C8: the pair (customers, id) / (invoices, client_ref) is never emitted by
\* generate_fk_pk_matches; generate_all_possible_matches emits it whenever
\* both keys are unused; rated "very weak", it is never submitted to
\* verify_relationship and never in verified_matches.
C8_UnmatchedPair ==
    /\ CustomersInvoices \notin Seqs(potential_matches)
    /\ (pc = "rate" \/ (pc = "finish" /\ remaining_matches = <<>>)) =>
           ((/\ <<tCustomers, fId>>
                    \in Range(UnusedPks(potential_keys, verified_matches))
             /\ <<tInvoices, fClientRef>>
                    \in Range(UnusedFks(potential_foreign_keys, verified_matches)))
                => CustomersInvoices \in Seqs(remaining_matches))
    /\ RatedVeryWeak(CustomersInvoices) =>
           /\ \A i \in 1..Len(calls) : calls[i].match # CustomersInvoices
           /\ CustomersInvoices \notin Seqs(verified_matches)

\* The pair was in the fallback batch with another pair, was rated "very
\* weak" while the other pair was verified, and the run completed.
C8_Witness ==
    /\ pc = "done"
    /\ RatedVeryWeak(CustomersInvoices)
    /\ Len(remaining_matches) = 2
    /\ calls # <<>>

\* ------------------------------------------------------------------------
\* Properties of the error handling of the verifier in a pipeline run
\* ------------------------------------------------------------------------
\* C15: a query error during the integrity query or the usage query of
\* verify_relationship yields verified = false with an error reason; the
\* step that meets it leaves verified_matches and verification_results as
\* they were and the loop moves to the next candidate.
C15_QueryErrorIsRejection ==
    [][Len(calls') = Len(calls) + 1 =>
           LET call == calls'[Len(calls')]
           IN  /\ Failed(VerifyCall(call.match, "integrity"))
               /\ VerifyCall(call.match, "none").verified
                      => Failed(VerifyCall(call.match, "usage"))
               /\ ~ Failed(VerifyCall(call.match, "none"))
               /\ Failed(call.result) =>
                      /\ DOMAIN call.result = {"verified", "reason"}
                      /\ verified_matches' = verified_matches
                      /\ verification_results' = verification_results
                      /\ idx' = idx + 1
                      /\ pc' = pc]_vars

\* A query of the first candidate raised although its columns pass both
\* tests, and the loop went on to verify and accept the second.
C15_Witness ==
    /\ Len(calls) = 2
    /\ Failed(calls[1].result)
    /\ VerifyCall(calls[1].match, "none").verified
    /\ calls[2].result.verified
    /\ verified_matches = <<calls[2].match>>

\* ------------------------------------------------------------------------
\* read_verified_matches applied to a report file that was edited by hand
\* ------------------------------------------------------------------------
MaxFileRows == 2

chTarget == tOrders \o chDot \o fUserId

\* Relationship texts of the form arrow, space, table.field.
relWellFormed == chArrowToFk \o chTarget
\* Texts on which the parsing raises IndexError or ValueError: no space, no
\* dot, two dots, nothing after the space.
relNoSpace == <<"→">> \o chTarget
relNoDot == chArrowToFk \o tOrders
relTwoDots == chArrowToFk \o chTarget \o chDot \o fId
relNoTarget == chArrowToFk
\* Texts not of the form on which the parsing does not raise: another first
\* word, and words after table.field.
relWrongArrow == chArrowToPk \o chTarget
relTrailing == chArrowToFk \o chTarget \o <<" ">> \o fName

Unparsable == { relNoSpace, relNoDot, relTwoDots, relNoTarget }
Malformed == Unparsable \cup { relWrongArrow, relTrailing }
RelationshipTexts == { relWellFormed, chNoRelationships, None } \cup Malformed

\* A row of the file with the given text cells.
FileRow(table, field, field_type, relationship, status) ==
    [UnusedRow(<<table, field>>, field_type, status)
        EXCEPT !.relationship = relationship]

\* The rows a file is made of: PK rows of users.id and customers.id, an FK
\* row and the row of an untracked table.
FileRows ==
    { FileRow(t, fId, chPK, r, chVerified) :
          t \in {tUsers, tCustomers}, r \in RelationshipTexts }
        \cup { FileRow(tOrders, fUserId, chFK, chArrowToPk \o tUsers \o chDot \o fId,
                       chVerified),
               UntrackedRow(tParts) }

Files == UNION { [1..n -> FileRows] : n \in 0..MaxFileRows }

InitRead ==
    /\ db = Idle
    /\ pc = "call"
    /\ PipelineIdle
    /\ args \in { [rows |-> f] : f \in Files }
    /\ ret = <<>>

\* read_verified_matches applied to the file
ApplyRead ==
    /\ pc = "call"
    /\ ret' = read_verified_matches(args.rows)
    /\ pc' = "returned"
    /\ UNCHANGED <<db, idx, potential_keys, untracked_tables, potential_foreign_keys,
                   potential_matches, verified_matches, verification_results,
                   remaining_matches, strengths, strong_matches, report, calls,
                   reloaded, args>>

NextRead == ApplyRead

SpecRead == InitRead /\ [][NextRead]_vars

\* The PK rows of the file whose relationship text is in the set.
PkRowsWith(texts) ==
    { i \in 1..Len(args.rows) :
          args.rows[i].field_type = chPK /\ args.rows[i].relationship \in texts }

\* The candidate and untracked sets are rebuilt from all the rows.
SetsRebuilt ==
    /\ ret.potential_keys
           = { <<args.rows[i].table_name, args.rows[i].field_name>> :
                   i \in PkRowsWith(RelationshipTexts) }
    /\ ret.potential_foreign_keys
           = { <<r.table_name, r.field_name>> :
                   r \in { q \in Range(args.rows) : q.field_type = chFK } }
    /\ Range(ret.untracked_tables)
           = { r.table_name : r \in { q \in Range(args.rows) : q.status = chNoIdentifiers } }

\* C19: every PK row whose relationship text is not of the form arrow,
\* space, table.field is skipped: the matches returned are those of the
\* well-formed rows, none is built from a malformed row, and the candidate
\* and untracked sets are rebuilt.
C19_MalformedRowSkipped ==
    pc = "returned" =>
        /\ Len(ret.verified_matches) = Cardinality(PkRowsWith({relWellFormed}))
        /\ SetsRebuilt

\* ------------------------------------------------------------------------
\* generate_fk_pk_matches on its own
\* ------------------------------------------------------------------------
MaxRefs == 2

fIdCard == <<"i","d","_","c","a","r","d">>
fCard == <<"c","a","r","d">>
fCardId == <<"C","a","r","d","_","I","D">>
fUserIdRef == <<"u","s","e","r","_","i","d","_","r","e","f">>
fUserRef == <<"u","s","e","r","_","r","e","f">>

NameTables == <<tCustomers, tOrders, tUsers>>

\* Key candidates have any name (a declared primary key); foreign-key
\* candidates have an ID-like name.
KeyFields == <<fIdCard, fCard, fCardId, fUserIdRef, fUserRef>>
FkFields == SelectSeq(KeyFields, IsIdLike)

\* The columns of the tables with the given field names, in table order.
NameRefs(fields) ==
    Concat([i \in 1..Len(NameTables) |->
               [j \in 1..Len(fields) |-> <<NameTables[i], fields[j]>>]])

\* The lists of at most n of these columns, in that order.
NameLists(fields, n) ==
    { SelectSeq(NameRefs(fields), LAMBDA r : r \in S) :
          S \in { T \in SUBSET Range(NameRefs(fields)) : Cardinality(T) <= n } }

InitNames ==
    /\ db = Idle
    /\ pc = "call"
    /\ PipelineIdle
    /\ args \in { [primary_keys |-> pks, foreign_keys |-> fks] :
                     pks \in NameLists(KeyFields, MaxRefs),
                     fks \in NameLists(FkFields, MaxRefs) }
    /\ Range(args.primary_keys) \cap Range(args.foreign_keys) = {}
    /\ ret = <<>>

\* generate_fk_pk_matches applied to the two lists
ApplyMatcher ==
    /\ pc = "call"
    /\ ret' = generate_fk_pk_matches(args.primary_keys, args.foreign_keys)
    /\ pc' = "returned"
    /\ UNCHANGED <<db, idx, potential_keys, untracked_tables, potential_foreign_keys,
                   potential_matches, verified_matches, verification_results,
                   remaining_matches, strengths, strong_matches, report, calls,
                   reloaded, args>>

NextNames == ApplyMatcher

SpecNames == InitNames /\ [][NextNames]_vars

\* The pairs of a key and a foreign key of different tables whose normalized
\* field names are equal.
NamePairs ==
    { Match(p[1], p[2]) :
          p \in { q \in Range(args.primary_keys) \X Range(args.foreign_keys) :
                      /\ q[1][1] # q[2][1]
                      /\ BaseField(q[1][2]) = BaseField(q[2][2]) } }

PairsNamed(keyField, fkField) ==
    { Match(p[1], p[2]) :
          p \in { q \in Range(args.primary_keys) \X Range(args.foreign_keys) :
                      /\ q[1][2] = keyField
                      /\ q[2][2] = fkField
                      /\ q[1][1] # q[2][1] } }

====
